---- MODULE Spec2Model ----
(***************************************************************************)
(* Organic scoring endpoint (prompting/api/scoring/api.py) and validator   *)
(* start-up (neurons/validator.py).                                        *)
(*                                                                         *)
(* Three state machines share the module:                                  *)
(*   Spec          - the POST /scoring handler score_response              *)
(*   VerifySpec    - verify_scoring_signature                              *)
(*   ValidatorSpec - Validator.__init__ followed by forward passes         *)
(***************************************************************************)
EXTENDS Integers, Sequences, FiniteSets, TLC

VARIABLES
    pc,          \* score_response: "idle" | "handling" | "done"
    payload,     \* the JSON payload of the request being served
    authorized,  \* outcome of Depends(verify_signature) for that request
    result,      \* "returned" | "raised" | "http_error" | "none"
    calls,       \* collaborator calls the handler made, in order
    added,       \* the entries the handler passed to task_scorer.add_to_queue
    logs,        \* the log records the handler wrote, in order
    queue,       \* task ids on the scoring queue, oldest first
    vreq,        \* verify_scoring_signature: arguments and request headers
    vresult,     \* its outcome
    modTimestamp,   \* module-level name `timestamp` read at line 38
    modSignedFor,   \* module-level name `signed_for` read at line 38
    vpc,         \* Validator: "start" | "failed" | "ready"
    config,      \* config.neuron.tasks / config.neuron.task_p
    active_tasks,
    reward_pipeline,
    forwards     \* number of forward passes run

handlerVars == <<pc, payload, authorized, result, calls, added, logs, queue>>
verifyVars == <<vreq, vresult, modTimestamp, modSignedFor>>
validatorVars == <<vpc, config, active_tasks, reward_pipeline, forwards>>
vars == <<handlerVars, verifyVars, validatorVars>>

(***************************************************************************)
(* Bounds.                                                                 *)
(***************************************************************************)
MaxUid == 2       \* peer identifiers are 1..MaxUid
MaxQueue == 2     \* requests are admitted while the queue is shorter
MaxTime == 2      \* clock readings and timestamps are 0..MaxTime
FreshnessWindow == 1   \* a timestamp older than this is stale
MaxTasks == 3     \* length of config.neuron.tasks
Den == 10         \* weights are the decimal literals n/Den, n in 0..Den
MaxForwards == 2  \* forward passes per run

(***************************************************************************)
(* Python / JSON values, tagged with their type.                           *)
(***************************************************************************)
None == [t |-> "None"]
Missing == [t |-> "missing"]          \* a key that is not in the dict
JStr(s) == [t |-> "str", v |-> s]
JInt(n) == [t |-> "int", v |-> n]
JList(xs) == [t |-> "list", v |-> xs]
JDict(kvs) == [t |-> "dict", v |-> kvs]   \* kvs: <<key, value>> pairs, in insertion order

IsNone(x) == x.t = "None"

\* bool(x)
Truthy(x) ==
    CASE x.t = "None" -> FALSE
      [] x.t = "str" -> x.v # ""
      [] x.t = "int" -> x.v # 0
      [] x.t = "list" -> x.v # <<>>
      [] x.t = "dict" -> x.v # <<>>
      [] OTHER -> TRUE

\* d.get(key, default) for a key whose slot is x
Get(x, default) == IF x.t = "missing" THEN default ELSE x

RECURSIVE Lookup(_, _, _, _)
Lookup(kvs, key, i, default) ==
    IF i > Len(kvs) THEN default
    ELSE IF kvs[i][1] = key THEN kvs[i][2]
    ELSE Lookup(kvs, key, i + 1, default)

\* chunks.get(key, default) on a dict with arbitrary keys
DictGet(d, key, default) == Lookup(d.v, key, 1, default)

\* iterating a dict yields its keys, iterating a list its elements
Iterate(x) ==
    IF x.t = "dict" THEN [i \in 1..Len(x.v) |-> JStr(x.v[i][1])] ELSE x.v

Digits == <<"1", "2", "3", "4", "5", "6", "7", "8", "9">>

\* str(n) for a one-digit positive n
StrOfInt(n) == Digits[n]

\* int(x) succeeds
CanInt(x) ==
    \/ x.t = "int"
    \/ x.t = "str" /\ \E n \in 1..Len(Digits) : Digits[n] = x.v

\* int(x)
PyInt(x) ==
    IF x.t = "int" THEN x.v
    ELSE CHOOSE n \in 1..Len(Digits) : Digits[n] = x.v

RECURSIVE FilterNotNone(_)
FilterNotNone(xs) ==
    IF xs = <<>> THEN <<>>
    ELSE (IF IsNone(Head(xs)) THEN <<>> ELSE <<Head(xs)>>) \o FilterNotNone(Tail(xs))

(***************************************************************************)
(* Request payloads.                                                       *)
(***************************************************************************)
Peers == 1..MaxUid

Injective(s) == \A i, j \in DOMAIN s : i # j => s[i] # s[j]

PeerLists == {s \in UNION {[1..n -> Peers] : n \in 0..MaxUid} : Injective(s)}

\* payload["uid"]: absent, a list of peer ids in any order, a list holding a
\* numeric string, a list holding a string int() rejects
UidValues ==
    {Missing}
    \cup {JList([i \in DOMAIN s |-> JInt(s[i])]) : s \in PeerLists}
    \cup {JList(<<JStr(Digits[1])>>), JList(<<JStr("x")>>)}

Tokens == <<"a", "b", "c", "d", "e", "f", "g", "h", "i">>

\* the chunks one peer streamed: whole, with a gap the transport left, or none
ChunkList(shape, k) ==
    CASE shape = 1 -> <<JStr(Tokens[k])>>
      [] shape = 2 -> <<JStr(Tokens[k]), None, JStr("z")>>
      [] OTHER -> <<>>

RECURSIVE ChunkPairs(_, _, _)
ChunkPairs(D, shape, k) ==
    IF k > MaxUid THEN <<>>
    ELSE (IF k \in D THEN <<<<StrOfInt(k), JList(ChunkList(shape, k))>>>> ELSE <<>>)
         \o ChunkPairs(D, shape, k + 1)

\* payload["chunks"]: absent, a mapping peer id -> chunk list (JSON keys are
\* strings), or a bare chunk list
ChunkValues ==
    {Missing}
    \cup {JDict(ChunkPairs(D, shape, 1)) : D \in SUBSET Peers, shape \in 1..3}
    \cup {JList(<<JStr("a"), None, JStr("b")>>)}

Msg(content) == [t |-> "dict", content |-> content]

MessageValues ==
    { Missing,
      JList(<<>>),
      JList(<<Msg(Missing)>>),
      JList(<<Msg(None)>>),
      JList(<<Msg(JStr("q"))>>),
      JList(<<Msg(JStr("q")), Msg(Missing)>>) }

TaskValues == {Missing, JStr("InferenceTask"), JStr("WebRetrievalTask"), JStr("OtherTask")}

KnownModels == {"m1"}

ModelValues == {Missing, JStr(""), JStr("m1"), JStr("mx")}

BodyValues ==
    {Missing}
    \cup [t : {"dict"}, model : ModelValues, task : TaskValues, messages : MessageValues]

Payloads == [body : BodyValues, uid : UidValues, chunks : ChunkValues]

NoPayload == [body |-> Missing, uid |-> Missing, chunks |-> Missing]

(***************************************************************************)
(* Collaborators of the handler.                                           *)
(***************************************************************************)
\* ModelZoo.get_model_by_id(model) returns a handle; it raises otherwise
Resolves(model) == model.t = "str" /\ model.v \in KnownModels

ModelHandle(model) == [t |-> "model", v |-> model.v]

\* the task, bundle and dataset-entry classes: plain records of their arguments
InferenceTask(messages, llm_model, llm_model_id, query) ==
    [kind |-> "InferenceTask", messages |-> messages, llm_model |-> llm_model,
     llm_model_id |-> llm_model_id, query |-> query]

WebRetrievalTask(messages, query) ==
    [kind |-> "WebRetrievalTask", messages |-> messages, query |-> query]

SynapseStreamResult(accumulated_chunks) == [accumulated_chunks |-> accumulated_chunks]

DendriteResponseEvent(uids, stream_results) ==
    [uids |-> uids, stream_results |-> stream_results]

DatasetEntry == [kind |-> "DatasetEntry"]

DDGDatasetEntry(search_term) == [kind |-> "DDGDatasetEntry", search_term |-> search_term]

\* the keyword arguments of one add_to_queue call
QueueEntry(task, response, dataset_entry, step, task_id) ==
    [task |-> task, response |-> response, dataset_entry |-> dataset_entry,
     step |-> step, task_id |-> task_id]

\* task_scorer.add_to_queue: the entries join the queue in call order
AddToQueue(q, entries) == q \o [i \in 1..Len(entries) |-> entries[i].task_id]

\* str(uuid.uuid4()): an identifier no earlier entry carries
FreshTaskId(q) == Len(q) + 1

(***************************************************************************)
(* score_response.                                                         *)
(***************************************************************************)
Out(res, cs, es, ls) == [result |-> res, calls |-> cs, added |-> es, logs |-> ls]

\* line 59 with `and` for `or`
SkipScoringAnd(uids, chunks) == ~Truthy(uids) /\ ~Truthy(chunks)

\* line 59: `not uids or not chunks`
SkipScoring(uids, chunks) == ~Truthy(uids) \/ ~Truthy(chunks)

\* lines 64-73 without the return of line 71: a resolved model goes on with its
\* handle, a failed lookup goes on with no model
ModelGateNoReturn(model) ==
    IF Truthy(model)
    THEN [stop |-> FALSE,
          calls |-> <<"get_model_by_id">>,
          logs |-> IF Resolves(model) THEN <<>> ELSE <<"warning: model not in model zoo">>,
          llm_model |-> IF Resolves(model) THEN ModelHandle(model) ELSE None]
    ELSE [stop |-> FALSE, calls |-> <<>>, logs |-> <<>>, llm_model |-> None]

\* lines 64-73: a truthy model is looked up, a failed lookup is logged, and the
\* handler returns (line 71) whether or not the lookup failed
ModelGate(model) ==
    IF Truthy(model)
    THEN [stop |-> TRUE,
          calls |-> <<"get_model_by_id">>,
          logs |-> IF Resolves(model) THEN <<>> ELSE <<"warning: model not in model zoo">>,
          llm_model |-> IF Resolves(model) THEN ModelHandle(model) ELSE None]
    ELSE [stop |-> FALSE, calls |-> <<>>, logs |-> <<>>, llm_model |-> None]

\* line 91: one SynapseStreamResult per uid, chunks.get(str(uid), None)
InferenceStreamResults(uids, chunks) ==
    [i \in 1..Len(uids) |->
        SynapseStreamResult(DictGet(chunks, StrOfInt(uids[i]), None))]

\* lines 116-118: one SynapseStreamResult over `chunks` itself
WebRetrievalStreamResults(chunks) ==
    << SynapseStreamResult(JList(FilterNotNone(Iterate(chunks)))) >>

\* lines 76-98
InferenceBranch(body, uids, chunks, llm_model, task_id) ==
    LET organic_task == InferenceTask(Get(body.messages, None), llm_model,
                                      Get(body.model, None), Get(body.messages, None))
        ls == <<"info: received InferenceTask", "info: task created">>
    IN  IF chunks.t # "dict"
        THEN \* chunks.get on a list: AttributeError
             Out("raised", <<"InferenceTask">>, <<>>, ls)
        ELSE Out("returned",
                 <<"InferenceTask", "DendriteResponseEvent", "DatasetEntry", "add_to_queue">>,
                 << QueueEntry(organic_task,
                               DendriteResponseEvent(
                                   JList([i \in 1..Len(uids) |-> JInt(uids[i])]),
                                   InferenceStreamResults(uids, chunks)),
                               DatasetEntry, -1, task_id) >>,
                 ls \o <<"info: appended to scoring queue">>)

\* line 102 raises: body.get("messages")[0].get("content")
SearchTermFails(messages) ==
    \/ messages.t # "list"
    \/ messages.v = <<>>
    \/ messages.v[1].t # "dict"

\* lines 100-125
WebRetrievalBranch(body, uids, chunks, task_id) ==
    LET messages == Get(body.messages, None)
        ls == <<"info: received WebRetrievalTask">>
    IN  IF SearchTermFails(messages)
        THEN Out("returned", <<>>, <<>>, ls \o <<"error: no search term">>)
        ELSE
        LET search_term == Get(messages.v[1].content, None)
        IN  IF \E i \in 1..Len(messages.v) : messages.v[i].content.t = "missing"
            THEN \* msg["content"]: KeyError
                 Out("raised", <<>>, <<>>, ls)
            ELSE Out("returned",
                     <<"WebRetrievalTask", "DendriteResponseEvent", "DDGDatasetEntry", "add_to_queue">>,
                     << QueueEntry(
                            WebRetrievalTask(
                                JList([i \in 1..Len(messages.v) |-> messages.v[i].content]),
                                search_term),
                            \* uids=[uids]: the uid list, wrapped in a list
                            DendriteResponseEvent(
                                JList(<<JList([i \in 1..Len(uids) |-> JInt(uids[i])])>>),
                                WebRetrievalStreamResults(chunks)),
                            DDGDatasetEntry(search_term), -1, task_id) >>,
                     ls \o <<"info: appended to scoring queue">>)

\* lines 74-126
Dispatch(body, uids, chunks, llm_model, task_id) ==
    LET task_name == Get(body.task, None)
    IN  IF task_name = JStr("InferenceTask")
        THEN InferenceBranch(body, uids, chunks, llm_model, task_id)
        ELSE IF task_name = JStr("WebRetrievalTask")
        THEN WebRetrievalBranch(body, uids, chunks, task_id)
        ELSE Out("returned", <<>>, <<>>, <<"info: appended to scoring queue">>)

\* lines 53-126: the handler body on payload p
score_response(p, task_id) ==
    LET body == Get(p.body, None)
        uids == Get(p.uid, JList(<<>>))
        chunks == Get(p.chunks, JDict(<<>>))
    IN  IF SkipScoring(uids, chunks)
        THEN Out("returned", <<>>, <<>>, <<"error: uids or chunks not valid">>)
        ELSE IF \E i \in 1..Len(uids.v) : ~CanInt(uids.v[i])
        THEN \* int(uid): ValueError
             Out("raised", <<>>, <<>>, <<>>)
        ELSE IF body.t # "dict"
        THEN \* body.get on None: AttributeError
             Out("raised", <<>>, <<>>, <<>>)
        ELSE
        LET ints == [i \in 1..Len(uids.v) |-> PyInt(uids.v[i])]
            gate == ModelGate(Get(body.model, None))
        IN  IF gate.stop
            THEN Out("returned", gate.calls, <<>>, gate.logs)
            ELSE LET o == Dispatch(body, ints, chunks, gate.llm_model, task_id)
                 IN  Out(o.result, gate.calls \o o.calls, o.added, gate.logs \o o.logs)

(***************************************************************************)
(* The endpoint as a state machine.                                        *)
(***************************************************************************)
HandlerInit ==
    /\ pc = "idle"
    /\ payload = NoPayload
    /\ authorized = FALSE
    /\ result = "none"
    /\ calls = <<>>
    /\ added = <<>>
    /\ logs = <<>>
    /\ queue = <<>>

\* a POST /scoring arrives; Depends(verify_signature) has accepted it or not
Receive ==
    /\ pc = "idle"
    /\ Len(queue) < MaxQueue
    /\ \E p \in Payloads, a \in BOOLEAN :
          /\ payload' = p
          /\ authorized' = a
    /\ pc' = "handling"
    /\ result' = "none"
    /\ calls' = <<>>
    /\ added' = <<>>
    /\ logs' = <<>>
    /\ UNCHANGED queue

\* line 52: the dependency raised, FastAPI answers without running the handler
RejectUnauthorized ==
    /\ pc = "handling"
    /\ ~authorized
    /\ pc' = "done"
    /\ result' = "http_error"
    /\ UNCHANGED <<payload, authorized, calls, added, logs, queue>>

ScoreResponse ==
    /\ pc = "handling"
    /\ authorized
    /\ LET o == score_response(payload, FreshTaskId(queue))
       IN  /\ result' = o.result
           /\ calls' = o.calls
           /\ added' = o.added
           /\ logs' = o.logs
           /\ queue' = AddToQueue(queue, o.added)
    /\ pc' = "done"
    /\ UNCHANGED <<payload, authorized>>

\* the response is sent; the worker is ready for the next request
Respond ==
    /\ pc = "done"
    /\ pc' = "idle"
    /\ payload' = NoPayload
    /\ authorized' = FALSE
    /\ result' = "none"
    /\ calls' = <<>>
    /\ added' = <<>>
    /\ logs' = <<>>
    /\ UNCHANGED queue

(***************************************************************************)
(* verify_scoring_signature.                                               *)
(***************************************************************************)
API_HOTKEY == "hotkey"     \* shared_settings.API_HOTKEY

Signers == {"hotkey", "mallory"}
BodyBytes == {"b1", "b2"}
Nonces == {"n1", "n2"}
Recipients == {"v1", "v2"}
Times == 0..MaxTime

Unbound == [t |-> "unbound"]

Bytes(b) == [t |-> "bytes", v |-> b]

\* what the name `uuid` denotes inside the function: the module imported at
\* line 1, whatever the request's nonce is
UuidModule == "<module 'uuid'>"

\* sha256(body).hexdigest(): distinct bodies have distinct digests
Sha256Hex(b) == <<"sha256", b>>

\* f"{digest}.{uuid}.{timestamp}.{signed_for}"
CanonicalMessage(digest, nonce, ts, recipient) == <<digest, ".", nonce, ".", ts, ".", recipient>>

\* a signature string: the signing key and the message it was made over
Sign(signer, message) == [t |-> "str", signer |-> signer, message |-> message]

\* Keypair(ss58_address=address).verify(message, signature)
KeypairVerify(address, message, signature) ==
    signature.signer = address /\ signature.message = message

Signatures ==
    {Sign(k, CanonicalMessage(Sha256Hex(b), n, ts, r)) :
        k \in Signers, b \in BodyBytes, n \in {"n1", UuidModule}, ts \in Times, r \in Recipients}

\* the three arguments, and the headers the request carried beside them
VerifyRequests ==
    [signature : Signatures \cup {JInt(0)},
     body : {Bytes(b) : b \in BodyBytes} \cup {JStr("b1")},
     signed_by : {JStr(k) : k \in Signers} \cup {None},
     nonce : Nonces,
     timestamp : Times,
     signed_for : Recipients]

Success == "None"

\* line 38: `uuid`, `timestamp` and `signed_for` are no parameters of the
\* function; they are read from module scope
MessageToVerify(req, ts, sf) ==
    CanonicalMessage(Sha256Hex(req.body.v), UuidModule, ts, sf)

\* lines 20-48; ts and sf are the module-level `timestamp` and `signed_for`
verify_scoring_signature(req, ts, sf) ==
    IF req.signature.t # "str" THEN "Invalid signature type"
    ELSE IF req.body.t # "bytes" THEN "Body is not of type bytes"
    ELSE IF req.signed_by.t # "str" THEN "Invalid 'signed_by' address"
    ELSE IF req.signed_by.v # API_HOTKEY THEN "Message not from the expected SS58 address"
    ELSE IF ts.t = "unbound" \/ sf.t = "unbound" THEN "NameError"
    ELSE IF ~KeypairVerify(req.signed_by.v, MessageToVerify(req, ts.v, sf.v), req.signature)
    THEN "Signature mismatch"
    ELSE Success

VerifyInit ==
    /\ vreq = None
    /\ vresult = "none"
    /\ modTimestamp \in {JInt(ts) : ts \in Times} \cup {Unbound}
    /\ modSignedFor \in {JStr(r) : r \in Recipients} \cup {Unbound}

VerifyCall ==
    /\ vreq = None
    /\ \E req \in VerifyRequests :
          /\ vreq' = req
          /\ vresult' = verify_scoring_signature(req, modTimestamp, modSignedFor)
    /\ UNCHANGED <<modTimestamp, modSignedFor>>

VerifyReturn ==
    /\ vreq # None
    /\ vreq' = None
    /\ vresult' = "none"
    /\ UNCHANGED <<modTimestamp, modSignedFor>>

(***************************************************************************)
(* Python floats (IEEE 754 binary64), for sum(task_p) != 1.                *)
(* A non-negative value below 16 is held in fixed point with 60 binary     *)
(* places, as four 16-bit limbs, most significant first.  Every double met *)
(* here (a weight n/Den or a sum of a few) has its 53 significant bits     *)
(* inside the four limbs, so the sum of two is exact before it is rounded. *)
(***************************************************************************)
MantissaBits == 53

Base == 2 ^ 16

Zero == <<0, 0, 0, 0>>

One == <<2 ^ 12, 0, 0, 0>>

\* exact a + b
LimbAdd(a, b) ==
    LET s4 == a[4] + b[4]
        s3 == a[3] + b[3] + (s4 \div Base)
        s2 == a[2] + b[2] + (s3 \div Base)
        s1 == a[1] + b[1] + (s2 \div Base)
    IN  <<s1, s2 % Base, s3 % Base, s4 % Base>>

\* the number of bits of a limb
BitLength(x) == CHOOSE k \in 0..16 : x < 2 ^ k /\ (k = 0 \/ x >= 2 ^ (k - 1))

\* the number of bits from the leading one to the last binary place
SignificantBits(v) ==
    IF v[1] > 0 THEN 48 + BitLength(v[1])
    ELSE IF v[2] > 0 THEN 32 + BitLength(v[2])
    ELSE IF v[3] > 0 THEN 16 + BitLength(v[3])
    ELSE BitLength(v[4])

\* round to nearest, ties to even, at MantissaBits significant bits; sticky
\* tells that the exact value has more below the last binary place
RoundToDouble(v, sticky) ==
    LET r == SignificantBits(v) - MantissaBits
    IN  IF r <= 0 THEN v
        ELSE
        LET unit == 2 ^ r
            rem == v[4] % unit
            kept == <<v[1], v[2], v[3], v[4] - rem>>
            odd == (v[4] \div unit) % 2 = 1
            up == 2 * rem > unit \/ (2 * rem = unit /\ (sticky \/ odd))
        IN  IF up THEN LimbAdd(kept, <<0, 0, 0, unit>>) ELSE kept

\* float.__add__
FloatAdd(a, b) == RoundToDouble(LimbAdd(a, b), FALSE)

\* n/d by long division, one limb at a time
Expansion(n, d) ==
    LET t1 == n * (2 ^ 12)
        t2 == (t1 % d) * Base
        t3 == (t2 % d) * Base
        t4 == (t3 % d) * Base
    IN  [limbs |-> <<t1 \div d, t2 \div d, t3 \div d, t4 \div d>>, sticky |-> t4 % d # 0]

\* float("n/d" written as a decimal literal): the nearest double
FloatOf(n, d) == LET e == Expansion(n, d) IN RoundToDouble(e.limbs, e.sticky)

Weight[n \in 0..Den] == FloatOf(n, Den)

\* builtin sum over floats: 0 + p1 + p2 + ... left to right, each addition rounded
RECURSIVE FloatSumFrom(_, _, _)
FloatSumFrom(acc, ps, i) ==
    IF i > Len(ps) THEN acc ELSE FloatSumFrom(FloatAdd(acc, Weight[ps[i]]), ps, i + 1)

FloatSum(ps) == FloatSumFrom(Zero, ps, 1)

\* p > 0
FloatPositive(x) == x # Zero

(***************************************************************************)
(* Validator.__init__ and forward.                                         *)
(***************************************************************************)
TaskNames == <<"qa", "summarization", "date_qa", "debugging", "math">>

\* config.neuron.tasks and config.neuron.task_p (weights in units of 1/Den)
Configs ==
    [tasks : {[i \in 1..MaxTasks |-> TaskNames[i]]},
     task_p : UNION {[1..n -> 0..Den] : n \in 0..MaxTasks}]

Min(a, b) == IF a < b THEN a ELSE b

\* line 47: sum(self.config.neuron.task_p) != 1
WeightsRejected(task_p) == FloatSum(task_p) # One

\* lines 51-57: zip stops at the shorter list; the tasks with p > 0, in order
RECURSIVE ActiveFrom(_, _, _)
ActiveFrom(tasks, task_p, i) ==
    IF i > Min(Len(tasks), Len(task_p)) THEN <<>>
    ELSE (IF FloatPositive(Weight[task_p[i]]) THEN <<tasks[i]>> ELSE <<>>)
         \o ActiveFrom(tasks, task_p, i + 1)

ActiveTasks(cfg) == ActiveFrom(cfg.tasks, cfg.task_p, 1)

ValidatorInit ==
    /\ vpc = "start"
    /\ config \in Configs
    /\ active_tasks = <<>>
    /\ reward_pipeline = None
    /\ forwards = 0

\* lines 34-60; the base class, load_state and load_pipeline are taken to succeed
Construct ==
    /\ vpc = "start"
    /\ IF WeightsRejected(config.task_p)
       THEN /\ vpc' = "failed"        \* ValueError leaves __init__
            /\ UNCHANGED <<active_tasks, reward_pipeline>>
       ELSE /\ vpc' = "ready"
            /\ active_tasks' = ActiveTasks(config)
            /\ reward_pipeline' = [t |-> "RewardPipeline", selected_tasks |-> ActiveTasks(config)]
    /\ UNCHANGED <<config, forwards>>

\* lines 62-71, run on a constructed validator
Forward ==
    /\ vpc = "ready"
    /\ forwards < MaxForwards
    /\ forwards' = forwards + 1
    /\ UNCHANGED <<vpc, config, active_tasks, reward_pipeline>>

VerifyIdle ==
    /\ vreq = None
    /\ vresult = "none"
    /\ modTimestamp = None
    /\ modSignedFor = None

ValidatorIdle ==
    /\ vpc = "start"
    /\ config = None
    /\ active_tasks = <<>>
    /\ reward_pipeline = None
    /\ forwards = 0

HandlerIdle ==
    /\ pc = "off"
    /\ payload = NoPayload
    /\ authorized = FALSE
    /\ result = "none"
    /\ calls = <<>>
    /\ added = <<>>
    /\ logs = <<>>
    /\ queue = <<>>

Init == HandlerInit /\ VerifyIdle /\ ValidatorIdle

Next ==
    \/ Receive /\ UNCHANGED <<verifyVars, validatorVars>>
    \/ RejectUnauthorized /\ UNCHANGED <<verifyVars, validatorVars>>
    \/ ScoreResponse /\ UNCHANGED <<verifyVars, validatorVars>>
    \/ Respond /\ UNCHANGED <<verifyVars, validatorVars>>

Spec == Init /\ [][Next]_vars

VerifySpecInit == HandlerIdle /\ VerifyInit /\ ValidatorIdle

VerifyNext ==
    \/ VerifyCall /\ UNCHANGED <<handlerVars, validatorVars>>
    \/ VerifyReturn /\ UNCHANGED <<handlerVars, validatorVars>>

VerifySpec == VerifySpecInit /\ [][VerifyNext]_vars

ValidatorSpecInit == HandlerIdle /\ VerifyIdle /\ ValidatorInit

ValidatorNext ==
    \/ Construct /\ UNCHANGED <<handlerVars, verifyVars>>
    \/ Forward /\ UNCHANGED <<handlerVars, verifyVars>>

ValidatorSpec == ValidatorSpecInit /\ [][ValidatorNext]_vars

(***************************************************************************)
(* Properties.                                                             *)
(***************************************************************************)
Range(s) == {s[i] : i \in DOMAIN s}

Appended == "info: appended to scoring queue"

\* the request's uid list and chunks mapping are both non-empty and well formed:
\* every uid is an integer and chunks maps peer ids to chunk lists
WellFormedPeers(p) ==
    /\ p.uid.t = "list" /\ p.uid.v # <<>>
    /\ \A i \in 1..Len(p.uid.v) : p.uid.v[i].t = "int"
    /\ p.chunks.t = "dict" /\ p.chunks.v # <<>>

\* the body carries a non-empty messages list whose every message has text
WellFormedMessages(p) ==
    /\ p.body.t = "dict"
    /\ p.body.messages.t = "list" /\ p.body.messages.v # <<>>
    /\ \A i \in 1..Len(p.body.messages.v) : p.body.messages.v[i].content.t = "str"

\* the body names a model and the registry does not know it
UnresolvableModel(p) ==
    /\ p.body.t = "dict"
    /\ p.body.model.t = "str" /\ p.body.model.v # ""
    /\ p.body.model.v \notin KnownModels

\* C1: a request whose body carries a model identifier the registry cannot
\* resolve is served without any call of add_to_queue: the step that runs the
\* handler on it leaves the queue as it was, whatever the task kind.
C1_UnresolvableModelNotEnqueued ==
    [][(pc = "handling" /\ authorized /\ UnresolvableModel(payload))
         => (queue' = queue /\ added' = <<>> /\ "add_to_queue" \notin Range(calls'))]_vars

\* C1 witness: a well-formed retrieval request naming an unknown model has been
\* served: the registry was asked, the failure logged, the handler returned.
C1_Witness ==
    /\ pc = "done" /\ authorized
    /\ UnresolvableModel(payload) /\ WellFormedPeers(payload)
    /\ payload.body.task = JStr("WebRetrievalTask")
    /\ payload.body.messages = JList(<<Msg(JStr("q"))>>)
    /\ calls = <<"get_model_by_id">>
    /\ logs = <<"warning: model not in model zoo">>
    /\ result = "returned"

\* C2: an authenticated request with non-empty uid and chunks, task
\* "InferenceTask", a non-empty messages list and a model the registry resolves
\* gets exactly one entry enqueued, whose task carries the resolved handle and
\* the given identifier.
C2_ResolvedInferenceEnqueued ==
    (/\ pc = "done" /\ authorized
     /\ WellFormedPeers(payload)
     /\ WellFormedMessages(payload)
     /\ payload.body.task = JStr("InferenceTask")
     /\ Resolves(payload.body.model))
    => /\ Len(added) = 1
       /\ added[1].task.kind = "InferenceTask"
       /\ added[1].task.llm_model = ModelHandle(payload.body.model)
       /\ added[1].task.llm_model_id = payload.body.model
       /\ queue # <<>> /\ queue[Len(queue)] = added[1].task_id

\* no search term can be taken from the first message: messages missing or
\* empty, or the first message without content
NoSearchTerm(p) ==
    /\ p.body.t = "dict"
    /\ p.body.task = JStr("WebRetrievalTask")
    /\ \/ p.body.messages.t # "list"
       \/ p.body.messages.v = <<>>
       \/ p.body.messages.v[1].content.t \in {"missing", "None"}

\* C3: a "WebRetrievalTask" request from which no search term can be taken
\* enqueues nothing, and every retrieval entry handed to the queue has a
\* non-null search term as its task query and as its dataset entry's search_term.
C3_RetrievalHasSearchTerm ==
    (pc = "done" /\ authorized /\ WellFormedPeers(payload)) =>
      /\ NoSearchTerm(payload) => added = <<>>
      /\ \A k \in 1..Len(added) :
            added[k].task.kind = "WebRetrievalTask"
            => /\ ~IsNone(added[k].task.query)
               /\ ~IsNone(added[k].dataset_entry.search_term)

\* C4: every enqueued entry's bundle has one per-peer result for each requested
\* uid, in the request's order, its uid list is that list of peer identifiers,
\* and a uid without an entry in chunks has an empty or null placeholder.
C4_BundleOneResultPerUid ==
    (pc = "done" /\ WellFormedPeers(payload) /\ WellFormedMessages(payload)) =>
      \A k \in 1..Len(added) :
        LET uids == payload.uid.v
            bundle == added[k].response
        IN  /\ bundle.uids.t = "list"
            /\ Len(bundle.uids.v) = Len(uids)
            /\ \A i \in 1..Len(uids) : bundle.uids.v[i] = JInt(PyInt(uids[i]))
            /\ Len(bundle.stream_results) = Len(uids)
            /\ payload.chunks.t = "dict" =>
                 \A i \in 1..Len(uids) :
                    DictGet(payload.chunks, StrOfInt(PyInt(uids[i])), Missing).t = "missing"
                    => bundle.stream_results[i].accumulated_chunks \in {None, JList(<<>>)}

\* read at time MaxTime, a timestamp older than the freshness window
Stale(ts) == MaxTime - ts > FreshnessWindow

UnknownTaskKind(p) ==
    p.body.t = "dict" => p.body.task \notin {JStr("InferenceTask"), JStr("WebRetrievalTask")}

\* C7: a request whose task discriminator is not "InferenceTask" or
\* "WebRetrievalTask" enqueues nothing and is not reported as appended to the
\* scoring queue.
C7_UnknownTaskNotReported ==
    (pc = "done" /\ authorized /\ WellFormedPeers(payload) /\ UnknownTaskKind(payload))
    => (added = <<>> /\ Appended \notin Range(logs))

\* the weights, as the decimal numbers configured, add up to exactly 1
ExactlyOne(ps) ==
    LET S[i \in 0..Len(ps)] == IF i = 0 THEN 0 ELSE S[i - 1] + ps[i]
    IN  S[Len(ps)] = Den

\* the configured tasks that have a weight above 0, in configuration order
RECURSIVE Weighted(_, _, _)
Weighted(tasks, ps, i) ==
    IF i > Len(tasks) THEN <<>>
    ELSE (IF i <= Len(ps) /\ ps[i] > 0 THEN <<tasks[i]>> ELSE <<>>) \o Weighted(tasks, ps, i + 1)

\* C8: construction fails iff the weights do not sum to 1; a failed
\* construction builds neither active_tasks nor the reward pipeline and no
\* forward pass runs; a completed one has active_tasks equal to the configured
\* tasks of weight above 0, in order.
C8_FatalIffWeightsOffOne ==
    vpc # "start" =>
      /\ vpc = "failed" <=> ~ExactlyOne(config.task_p)
      /\ vpc = "failed" => (active_tasks = <<>> /\ reward_pipeline = None /\ forwards = 0)
      /\ vpc = "ready" => active_tasks = Weighted(config.tasks, config.task_p, 1)

\* uid or chunks is missing or empty
EmptyUidOrChunks(p) ==
    \/ p.uid.t = "missing" \/ p.uid.v = <<>>
    \/ p.chunks.t = "missing" \/ p.chunks.v = <<>>

\* C9: with an empty or missing uid list or chunks mapping the handler returns
\* normally, enqueues nothing, and has made no registry lookup and built no task.
C9_EmptyFieldsSkipped ==
    [][(pc = "handling" /\ authorized /\ EmptyUidOrChunks(payload))
         => (result' = "returned" /\ calls' = <<>> /\ added' = <<>> /\ queue' = queue)]_vars

\* C9 witness: a request with an empty uid list, a non-empty chunks mapping and
\* a body naming a known model has been served and skipped.
C9_Witness ==
    /\ pc = "done" /\ authorized
    /\ payload.uid = JList(<<>>)
    /\ payload.chunks.t = "dict" /\ payload.chunks.v # <<>>
    /\ payload.body.t = "dict" /\ Resolves(payload.body.model)
    /\ payload.body.task = JStr("InferenceTask")
    /\ result = "returned"
    /\ logs = <<"error: uids or chunks not valid">>

\* C10: no enqueued bundle holds a null chunk, and each peer's accumulated
\* chunks are its chunks from the request's mapping, nulls removed, order kept.
C10_NoNullChunks ==
    (pc = "done" /\ WellFormedPeers(payload) /\ WellFormedMessages(payload)) =>
      \A k \in 1..Len(added) :
        \A i \in 1..Len(added[k].response.stream_results) :
          LET ac == added[k].response.stream_results[i].accumulated_chunks
          IN  /\ ac.t = "list" => \A j \in 1..Len(ac.v) : ~IsNone(ac.v[j])
              /\ (payload.chunks.t = "dict" /\ i <= Len(payload.uid.v)) =>
                   LET mine == DictGet(payload.chunks, StrOfInt(PyInt(payload.uid.v[i])), None)
                   IN  mine.t = "list" => (ac.t = "list" /\ ac.v = FilterNotNone(mine.v))

====
